---- MODULE Spec2Model ----
(***************************************************************************)
(* A model of models/encoderRNN.py: the EncoderRNN module, its constructor *)
(* and its forward pass (embedding -> input dropout -> pack -> recurrent   *)
(* stack -> unpack).                                                       *)
(*                                                                         *)
(* Strings that the code inspects character by character (rnn_type, the    *)
(* keys of supported_rnns) are tuples of one-character strings.  Tensors   *)
(* are nested sequences of integers; a shape is read off the nesting.      *)
(* Floating point arithmetic is replaced by integer arithmetic modulo a    *)
(* prime, with fixed weights: the data flow of every primitive is kept.    *)
(* Probabilities are in percent (0.5 is 50).                               *)
(***************************************************************************)
EXTENDS Integers, Sequences, FiniteSets, TLC

(***************************************************************************)
(* Bounds of the model.                                                    *)
(***************************************************************************)
MaxBatch == 2
MaxLen == 2
MaxLayers == 2
MaxVocab == 2
MaxHidden == 2

\* Seeds of the random number generator that dropout draws from.
Seeds == {0, 1}
\* Dropout probabilities a caller passes explicitly, in percent.
DropoutPs == {0, 50}

(***************************************************************************)
(* Strings as tuples of characters, and str.lower().                       *)
(***************************************************************************)
UpperCase == <<"A","B","C","D","E","F","G","H","I","J","K","L","M",
               "N","O","P","Q","R","S","T","U","V","W","X","Y","Z">>
LowerCase == <<"a","b","c","d","e","f","g","h","i","j","k","l","m",
               "n","o","p","q","r","s","t","u","v","w","x","y","z">>

LowerChar(c) ==
    IF \E i \in DOMAIN UpperCase : UpperCase[i] = c
    THEN LowerCase[CHOOSE i \in DOMAIN UpperCase : UpperCase[i] = c]
    ELSE c

lower(s) == [i \in DOMAIN s |-> LowerChar(s[i])]

\* The rnn_type strings a caller passes explicitly.
RnnTypes == { <<"l","s","t","m">>, <<"g","r","u">>, <<"r","n","n">>,
              <<"G","R","U">>, <<"L","s","t","m">>, <<"R","N","N">>,
              <<"c","n","n">> }

(***************************************************************************)
(* supported_rnns: the module-level dictionary from name to cell class.    *)
(***************************************************************************)
supported_rnns ==
    (<<"l","s","t","m">> :> "LSTM") @@
    (<<"g","r","u">> :> "GRU") @@
    (<<"r","n","n">> :> "RNN")

(***************************************************************************)
(* The defaults of EncoderRNN.__init__'s keyword arguments.                *)
(***************************************************************************)
Default_dropout_p == 50
Default_n_layers == 5
Default_bidirectional == TRUE
Default_rnn_type == <<"g","r","u">>

KwNames == {"dropout_p", "n_layers", "bidirectional", "rnn_type"}

\* Which keyword arguments a call of the constructor supplies.
KwSupplied == {{}, KwNames} \cup {{n} : n \in KwNames}

\* The value of keyword argument `name`: the caller's, or the default.
Arg(kw, name, default) == IF name \in DOMAIN kw THEN kw[name] ELSE default

NoAttrs == [a \in {} |-> TRUE]

LayerAttrs == {"embedding", "input_dropout", "rnn"}

VARIABLES
    pc,      \* "start", "constructed", or the exception __init__ raised
    args,    \* the arguments __init__ was called with
    self,    \* the module's attributes, by name
    call     \* the forward call whose result the caller holds, or NoCall

vars == <<pc, args, self, call>>

NoArgs == [in_features |-> 0, hidden_size |-> 0, kw |-> NoAttrs]
NoCall == [outcome |-> "none"]
NoValue == [type |-> "None"]

(***************************************************************************)
(* EncoderRNN.__init__, statement by statement.  The result is the         *)
(* exception raised ("" for none) and the attributes set so far.  debug    *)
(* is __debug__: the assert statement runs unless Python is started -O.    *)
(***************************************************************************)
EncoderRNN_init_check_last(in_features, hidden_size, kw, debug) ==
    LET dropout_p == Arg(kw, "dropout_p", Default_dropout_p)
        n_layers == Arg(kw, "n_layers", Default_n_layers)
        bidirectional == Arg(kw, "bidirectional", Default_bidirectional)
        rnn_type == Arg(kw, "rnn_type", Default_rnn_type)
        s0 == ("training" :> TRUE)
        s1 == s0 @@ ("embedding" :> [cls |-> "Embedding",
                                      num_embeddings |-> in_features,
                                      embedding_dim |-> hidden_size])
        s2 == s1 @@ ("input_dropout" :> [cls |-> "Dropout", p |-> dropout_p])
    IN  IF debug /\ lower(rnn_type) \notin DOMAIN supported_rnns
        THEN [raised |-> "AssertionError", self |-> s2]
        ELSE IF rnn_type \notin DOMAIN supported_rnns
        THEN [raised |-> "KeyError", self |-> s2]
        ELSE [raised |-> "",
              self |-> s2 @@ ("rnn_cell" :> supported_rnns[rnn_type]) @@
                       ("rnn" :> [cls |-> supported_rnns[rnn_type],
                                  input_size |-> hidden_size,
                                  hidden_size |-> hidden_size,
                                  num_layers |-> n_layers,
                                  batch_first |-> TRUE,
                                  bidirectional |-> bidirectional,
                                  dropout |-> dropout_p])]

EncoderRNN_init(in_features, hidden_size, kw, debug) ==
    LET dropout_p == Arg(kw, "dropout_p", Default_dropout_p)
        n_layers == Arg(kw, "n_layers", Default_n_layers)
        bidirectional == Arg(kw, "bidirectional", Default_bidirectional)
        rnn_type == Arg(kw, "rnn_type", Default_rnn_type)
        \* super(EncoderRNN, self).__init__()
        s0 == ("training" :> TRUE)
    IN  \* assert rnn_type.lower() in supported_rnns.keys()
        IF debug /\ lower(rnn_type) \notin DOMAIN supported_rnns
        THEN [raised |-> "AssertionError", self |-> s0]
        \* self.rnn_cell = supported_rnns[rnn_type]
        ELSE IF rnn_type \notin DOMAIN supported_rnns
        THEN [raised |-> "KeyError", self |-> s0]
        ELSE LET s1 == s0 @@ ("rnn_cell" :> supported_rnns[rnn_type])
                 s2 == s1 @@ ("embedding" :> [cls |-> "Embedding",
                                               num_embeddings |-> in_features,
                                               embedding_dim |-> hidden_size])
                 s3 == s2 @@ ("input_dropout" :> [cls |-> "Dropout",
                                                   p |-> dropout_p])
                 s4 == s3 @@ ("rnn" :> [cls |-> s1["rnn_cell"],
                                        input_size |-> hidden_size,
                                        hidden_size |-> hidden_size,
                                        num_layers |-> n_layers,
                                        batch_first |-> TRUE,
                                        bidirectional |-> bidirectional,
                                        dropout |-> dropout_p])
             IN  [raised |-> "", self |-> s4]

\* The keyword arguments of one constructor call: those of `supplied`.
Kwargs(supplied, dp, nl, bi, rt) ==
    [n \in supplied |-> CASE n = "dropout_p" -> dp
                          [] n = "n_layers" -> nl
                          [] n = "bidirectional" -> bi
                          [] OTHER -> rt]

Construct ==
    /\ pc = "start"
    /\ \E supplied \in KwSupplied, dp \in DropoutPs, nl \in 1..MaxLayers,
          bi \in BOOLEAN, rt \in RnnTypes, debug \in BOOLEAN :
          LET kw == Kwargs(supplied, dp, nl, bi, rt)
              r == EncoderRNN_init(MaxVocab, MaxHidden, kw, debug)
          IN  /\ args' = [in_features |-> MaxVocab, hidden_size |-> MaxHidden,
                          kw |-> kw]
              /\ pc' = IF r.raised = "" THEN "constructed" ELSE r.raised
              /\ self' = r.self
    /\ UNCHANGED call

(***************************************************************************)
(* nn.Module.train() and nn.Module.eval(), inherited by EncoderRNN.        *)
(***************************************************************************)
Train ==
    /\ pc = "constructed"
    /\ call = NoCall
    /\ self' = [self EXCEPT !["training"] = TRUE]
    /\ UNCHANGED <<pc, args, call>>

Eval ==
    /\ pc = "constructed"
    /\ call = NoCall
    /\ self' = [self EXCEPT !["training"] = FALSE]
    /\ UNCHANGED <<pc, args, call>>

(***************************************************************************)
(* Tensor arithmetic.  A vector is a sequence of integers modulo 251.      *)
(***************************************************************************)
M(x) == x % 251

\* F applied to the value of e, which is computed once.
Let(e, F(_)) == CHOOSE r \in {F(v) : v \in {e}} : TRUE

\* The sequence <<F(1), ..., F(n)>>, every element computed once.
Tab(n, F(_)) ==
    LET f[i \in 0..n] == IF i = 0 THEN <<>> ELSE Append(f[i - 1], F(i))
    IN  f[n]

\* F(1) + ... + F(n).
SumTo(n, F(_)) ==
    LET f[i \in 0..n] == IF i = 0 THEN 0 ELSE f[i - 1] + F(i)
    IN  f[n]

Zeros(width) == Tab(width, LAMBDA j : 0)

\* Entry (j, i) of the weight matrix numbered `salt`: fixed, never zero.
Weight(salt, j, i) == 1 + ((salt * 31 + j * 17 + i * 7) % 97)

\* The matrix-vector product W_salt x, of `width` rows.
Linear(salt, x, width) ==
    Tab(width, LAMBDA j :
        M(SumTo(Len(x), LAMBDA i : Weight(salt, j, i) * x[i])))

Reverse(s) == Tab(Len(s), LAMBDA i : s[Len(s) + 1 - i])

\* The shape of a three-dimensional tensor.
Shape(d) == <<Len(d), Len(d[1]), Len(d[1][1])>>

Tensor(d) == [type |-> "Tensor", data |-> d]

(***************************************************************************)
(* nn.Embedding: row `token` of the (num_embeddings, embedding_dim) table. *)
(***************************************************************************)
Embedding(layer, token) ==
    Tab(layer.embedding_dim, LAMBDA j : M(token * 83 + j * 19 + 5))

(***************************************************************************)
(* Dropout.  The generator's draw for element j of the vector at (b, t)    *)
(* of the tensor numbered `salt` is a number in 0..99; the element is      *)
(* zeroed when the draw is below p and scaled by 1/(1-p) otherwise.        *)
(* Outside training mode dropout is the identity.                          *)
(***************************************************************************)
Draw(seed, salt, b, t, j) ==
    ((seed + 1) * 37 + salt * 53 + b * 17 + t * 29 + j * 41) % 100

Dropout_in_eval_too(x, p, training, seed, salt, b, t) ==
    Tab(Len(x), LAMBDA j :
        IF Draw(seed, salt, b, t, j) < p THEN 0
        ELSE M((x[j] * 100) \div (100 - p)))

Dropout(x, p, training, seed, salt, b, t) ==
    IF ~training THEN x
    ELSE Tab(Len(x), LAMBDA j :
            IF Draw(seed, salt, b, t, j) < p THEN 0
            ELSE M((x[j] * 100) \div (100 - p)))

(***************************************************************************)
(* nn.utils.rnn.pack_padded_sequence(input, lengths, batch_first=True),    *)
(* enforce_sorted left at its default True.  data holds, timestep by       *)
(* timestep, the vectors of the batch elements that are still running;     *)
(* batch_sizes[t] is how many are.  A length beyond the padded length is   *)
(* not checked here: the recurrent layer raises on the short data.         *)
(***************************************************************************)
RECURSIVE Offset(_, _)
Offset(bs, t) == IF t <= 1 THEN 0 ELSE bs[t - 1] + Offset(bs, t - 1)

TimeOf(bs, k) ==
    CHOOSE t \in 1..Len(bs) : Offset(bs, t) < k /\ k <= Offset(bs, t) + bs[t]

\* The packed sequence of the vectors at(b, t), b in 1..batch_sizes[t].
Packed(batch_sizes, at(_, _)) ==
    Let(batch_sizes, LAMBDA bs :
        [raised |-> "",
         batch_sizes |-> bs,
         data |-> Tab(Offset(bs, Len(bs) + 1), LAMBDA k :
                     Let(TimeOf(bs, k), LAMBDA t : at(k - Offset(bs, t), t)))])

pack_padded_sequence_to_max_length(input, lengths) ==
    LET at(b, t) == input[b][t]
    IN  IF lengths[Len(input)] <= 0 THEN [raised |-> "RuntimeError"]
        ELSE IF \E b \in 1..(Len(input) - 1) : lengths[b] < lengths[b + 1]
        THEN [raised |-> "RuntimeError"]
        ELSE IF lengths[1] > Len(input[1]) THEN [raised |-> "RuntimeError"]
        ELSE Packed(Tab(lengths[1], LAMBDA t : Len(input)), at)

pack_padded_sequence_unmasked(input, lengths) ==
    LET at(b, t) == input[b][t]
    IN  IF lengths[Len(input)] <= 0 THEN [raised |-> "RuntimeError"]
        ELSE IF \E b \in 1..(Len(input) - 1) : lengths[b] < lengths[b + 1]
        THEN [raised |-> "RuntimeError"]
        ELSE IF lengths[1] > Len(input[1]) THEN [raised |-> "RuntimeError"]
        ELSE Packed(Tab(Len(input[1]), LAMBDA t : Len(input)), at)

pack_padded_sequence(input, lengths) ==
    LET B == Len(input)
        T == Len(input[1])
        at(b, t) == input[b][t]
    IN  \* "Length of all samples has to be greater than 0"
        IF lengths[B] <= 0 THEN [raised |-> "RuntimeError"]
        \* "`lengths` array must be sorted in decreasing order"
        ELSE IF \E b \in 1..(B - 1) : lengths[b] < lengths[b + 1]
        THEN [raised |-> "RuntimeError"]
        \* batch_sizes has lengths[1] entries; data is sliced from the
        \* input, so it holds no timestep beyond the padded length
        ELSE Let(Tab(lengths[1], LAMBDA t :
                     Cardinality({b \in 1..B : lengths[b] >= t})), LAMBDA bs :
                 [raised |-> "",
                  batch_sizes |-> bs,
                  data |-> Packed(SubSeq(bs, 1, IF lengths[1] <= T
                                                THEN lengths[1] ELSE T),
                                  at).data])

\* The timesteps of batch element b held by a packed sequence.
RowLen(bs, b) == Cardinality({t \in 1..Len(bs) : bs[t] >= b})

Row(p, b) ==
    Tab(RowLen(p.batch_sizes, b), LAMBDA t :
        p.data[Offset(p.batch_sizes, t) + b])

(***************************************************************************)
(* nn.utils.rnn.pad_packed_sequence(sequence, batch_first=True): a dense   *)
(* (batch, max length, width) tensor, zero beyond each element's length.   *)
(***************************************************************************)
pad_packed_sequence(p) ==
    Tab(p.batch_sizes[1], LAMBDA b :
        Tab(Len(p.batch_sizes), LAMBDA t :
            IF b <= p.batch_sizes[t]
            THEN p.data[Offset(p.batch_sizes, t) + b]
            ELSE Zeros(Len(p.data[1]))))

(***************************************************************************)
(* The recurrent cells.  A cell's state is [h, c]; only the LSTM uses c.   *)
(* Each layer and direction has weights of its own.                        *)
(***************************************************************************)
ZeroState(H) == [h |-> Zeros(H), c |-> Zeros(H)]

Cell(cls, l, d, H, x, s) ==
    Let(Linear(l * 4 + d * 2, x, H), LAMBDA a :
    Let(Linear(l * 4 + d * 2 + 1, s.h, H), LAMBDA r :
        CASE cls = "RNN" ->
               [h |-> Tab(H, LAMBDA j : M(a[j] + r[j] + 1)), c |-> s.c]
          [] cls = "GRU" ->
               [h |-> Tab(H, LAMBDA j : M(a[j] + 2 * r[j] + s.h[j] + 3)),
                c |-> s.c]
          [] cls = "LSTM" ->
               Let(Tab(H, LAMBDA j : M(a[j] + r[j] + 3 * s.c[j] + 5)),
                   LAMBDA c :
                     [h |-> Tab(H, LAMBDA j : M(2 * c[j] + a[j] + 7)),
                      c |-> c])))

\* The states after each input of xs in turn, from the zero state (no
\* initial state is passed to the recurrent layer).
Scan(cls, l, d, H, xs) ==
    LET f[n \in 0..Len(xs)] ==
            IF n = 0 THEN <<>>
            ELSE Let(f[n - 1], LAMBDA prev :
                     Append(prev,
                            Cell(cls, l, d, H, xs[n],
                                 IF n = 1 THEN ZeroState(H) ELSE prev[n - 1])))
    IN  f[Len(xs)]

\* One layer over the rows of a packed batch: the output rows and the final
\* state of each direction for each batch element.
Layer(rnn, l, rows) ==
    Let(Tab(Len(rows), LAMBDA b :
            Scan(rnn.cls, l, 0, rnn.hidden_size, rows[b])), LAMBDA fw :
    Let(IF rnn.bidirectional
        THEN Tab(Len(rows), LAMBDA b :
                 Let(Reverse(rows[b]), LAMBDA rev :
                     Scan(rnn.cls, l, 1, rnn.hidden_size, rev)))
        ELSE <<>>, LAMBDA bw :
        [out |-> Tab(Len(rows), LAMBDA b :
                    Tab(Len(rows[b]), LAMBDA t :
                        IF rnn.bidirectional
                        THEN fw[b][t].h \o bw[b][Len(rows[b]) + 1 - t].h
                        ELSE fw[b][t].h)),
         final |-> IF rnn.bidirectional
                   THEN << Tab(Len(rows), LAMBDA b : fw[b][Len(rows[b])]),
                           Tab(Len(rows), LAMBDA b : bw[b][Len(rows[b])]) >>
                   ELSE << Tab(Len(rows), LAMBDA b : fw[b][Len(rows[b])]) >>]))

\* Layers 1..num_layers: the rows the last of them puts out, and the final
\* states of every layer and direction.  Dropout is applied to the output
\* of every layer but the last.
Stack(rnn, rows, training, seed) ==
    LET st[l \in 0..rnn.num_layers] ==
            IF l = 0 THEN [out |-> rows, final |-> <<>>]
            ELSE Let(st[l - 1], LAMBDA below :
                 Let(IF l = 1 THEN below.out
                     ELSE Tab(Len(rows), LAMBDA b :
                              Tab(Len(rows[b]), LAMBDA t :
                                  Dropout(below.out[b][t], rnn.dropout,
                                          training, seed, l, b, t))),
                     LAMBDA input :
                 Let(Layer(rnn, l, input), LAMBDA this :
                     [out |-> this.out,
                      final |-> below.final \o this.final])))
    IN  st[rnn.num_layers]

(***************************************************************************)
(* self.rnn(packed): nn.RNN, nn.GRU or nn.LSTM on a PackedSequence, with   *)
(* no initial state given.  The output is packed like the input; the       *)
(* second value is h_n, or for the LSTM the tuple (h_n, c_n).              *)
(***************************************************************************)
rnn_forward(rnn, p, training, seed) ==
    \* the data is narrowed by batch_sizes, step by step: it must hold them all
    IF Len(p.data) # Offset(p.batch_sizes, Len(p.batch_sizes) + 1)
    THEN [raised |-> "RuntimeError"]
    ELSE
    Let(Tab(p.batch_sizes[1], LAMBDA b : Row(p, b)), LAMBDA rows :
    Let(Stack(rnn, rows, training, seed), LAMBDA top :
        LET B == p.batch_sizes[1]
            at(b, t) == top.out[b][t]
            h_n == Tab(Len(top.final), LAMBDA i :
                       Tab(B, LAMBDA b : top.final[i][b].h))
            c_n == Tab(Len(top.final), LAMBDA i :
                       Tab(B, LAMBDA b : top.final[i][b].c))
        IN  [raised |-> "",
             output |-> Packed(p.batch_sizes, at),
             hidden |-> IF rnn.cls = "LSTM"
                        THEN [type |-> "tuple",
                              items |-> <<Tensor(h_n), Tensor(c_n)>>]
                        ELSE Tensor(h_n)]))

(***************************************************************************)
(* EncoderRNN.forward(inputs, input_lengths).  seed is the state of the    *)
(* random number generator when the call starts.  The result is the        *)
(* exception raised, or "ok" and the two values returned.                  *)
(***************************************************************************)
forward(slf, inputs, input_lengths, seed) ==
    \* embedded = self.embedding(inputs)
    Let(Tab(Len(inputs), LAMBDA b :
            Tab(Len(inputs[b]), LAMBDA t :
                Embedding(slf["embedding"], inputs[b][t]))), LAMBDA emb :
    \* embedded = self.input_dropout(embedded)
    Let(Tab(Len(inputs), LAMBDA b :
            Tab(Len(inputs[b]), LAMBDA t :
                Dropout(emb[b][t], slf["input_dropout"].p,
                        slf["training"], seed, 0, b, t))), LAMBDA embedded :
    \* embedded = nn.utils.rnn.pack_padded_sequence(embedded, input_lengths, ...)
    Let(pack_padded_sequence(embedded, input_lengths), LAMBDA packed :
        IF packed.raised # ""
        THEN [outcome |-> packed.raised, output |-> NoValue, hidden |-> NoValue]
        \* output, hidden = self.rnn(embedded)
        ELSE Let(rnn_forward(slf["rnn"], packed, slf["training"], seed),
                 LAMBDA r :
                   IF r.raised # ""
                   THEN [outcome |-> r.raised, output |-> NoValue,
                         hidden |-> NoValue]
                   \* output, _ = nn.utils.rnn.pad_packed_sequence(output, ...)
                   ELSE Let(r.output, LAMBDA output :
                            [outcome |-> "ok",
                             output |-> Tensor(pad_packed_sequence(output)),
                             hidden |-> r.hidden])))))

\* Whether a call draws random numbers that reach its result.
UsesRng(slf) ==
    slf["training"] /\ (slf["input_dropout"].p > 0 \/ slf["rnn"].dropout > 0)

(***************************************************************************)
(* The batches of the model: batch_size rows of padded_len tokens below    *)
(* vocab, set by `content`; the tokens beyond a row's length are its       *)
(* padding.                                                                *)
(***************************************************************************)
Batch(batch_size, padded_len, lengths, vocab, content) ==
    Tab(batch_size, LAMBDA b :
        Tab(padded_len, LAMBDA t :
            IF t <= lengths[b] THEN (content + b + t) % vocab
            ELSE (content + b * t) % vocab))

\* A call of forward as the caller sees it: the arguments, the seed the
\* generator had, and what the call returned or raised.
CallRecord(slf, inputs, lengths, seed) ==
    Let(forward(slf, inputs, lengths, seed), LAMBDA r :
        [outcome |-> r.outcome, output |-> r.output, hidden |-> r.hidden,
         inputs |-> inputs, lengths |-> lengths, seed |-> seed])

ForwardRetaining ==
    /\ pc = "constructed"
    /\ call = NoCall
    /\ \E batch_size \in 1..MaxBatch, padded_len \in 1..MaxLen,
          seed \in (IF UsesRng(self) THEN Seeds ELSE {0}) :
       \E lengths \in [1..batch_size -> 0..(padded_len + 1)],
          content \in 0..(MaxVocab - 1) :
       \E inputs \in {Batch(batch_size, padded_len, lengths,
                            self["embedding"].num_embeddings, content)} :
              /\ call' = CallRecord(self, inputs, lengths, seed)
              /\ self' = ("last_inputs" :> inputs) @@ self
    /\ UNCHANGED <<pc, args>>

\* A caller calls forward on a batch and holds what it returns, or the
\* exception it raised.
Forward ==
    /\ pc = "constructed"
    /\ call = NoCall
    /\ \E batch_size \in 1..MaxBatch, padded_len \in 1..MaxLen,
          seed \in (IF UsesRng(self) THEN Seeds ELSE {0}) :
       \E lengths \in [1..batch_size -> 0..(padded_len + 1)],
          content \in 0..(MaxVocab - 1) :
       \E inputs \in {Batch(batch_size, padded_len, lengths,
                            self["embedding"].num_embeddings, content)} :
              call' = CallRecord(self, inputs, lengths, seed)
    /\ UNCHANGED <<pc, args, self>>

\* The caller lets go of the values forward returned; the module is as it was.
Release ==
    /\ call # NoCall
    /\ call' = NoCall
    /\ UNCHANGED <<pc, args, self>>

Init ==
    /\ pc = "start"
    /\ args = NoArgs
    /\ self = NoAttrs
    /\ call = NoCall

Next == Construct \/ Train \/ Eval \/ Forward \/ Release

Spec == Init /\ [][Next]_vars
(***************************************************************************)
(* Vocabulary of the properties.                                           *)
(***************************************************************************)
rnn_type_arg == Arg(args.kw, "rnn_type", Default_rnn_type)

ConstructionFailed == pc \in {"AssertionError", "KeyError"}

Called == call # NoCall

Returned == Called /\ call.outcome = "ok"

BatchSize == Len(call.inputs)

PaddedLen == Len(call.inputs[1])

\* Every true length is strictly positive and within the padded length.
ValidLengths == \A b \in 1..BatchSize : 1 <= call.lengths[b] /\ call.lengths[b] <= PaddedLen

SortedLengths == \A b \in 1..(BatchSize - 1) : call.lengths[b] >= call.lengths[b + 1]

MaxLength == CHOOSE m \in 0..(PaddedLen + 1) :
                /\ \E b \in 1..BatchSize : call.lengths[b] = m
                /\ \A b \in 1..BatchSize : call.lengths[b] <= m

Directions == IF self["rnn"].bidirectional THEN 2 ELSE 1

\* The hidden state as a sequence of tensors: one, or the LSTM's two.
HiddenTensors(h) == IF h.type = "tuple" THEN h.items ELSE <<h>>

\* Two results agree on batch element i of the first and j of the second:
\* the features at the first n timesteps and every final state.
SameElement(r1, i, r2, j, n) ==
    /\ r1.outcome = "ok" /\ r2.outcome = "ok"
    /\ \A t \in 1..n : r1.output.data[i][t] = r2.output.data[j][t]
    /\ r1.hidden.type = r2.hidden.type
    /\ \A k \in DOMAIN HiddenTensors(r1.hidden) :
         \A m \in DOMAIN HiddenTensors(r1.hidden)[k].data :
            HiddenTensors(r1.hidden)[k].data[m][i] = HiddenTensors(r2.hidden)[k].data[m][j]

\* The encoder as its constructor call made it, in the present mode.
AsConstructed(kw) ==
    [EncoderRNN_init(args.in_features, args.hidden_size, kw, TRUE).self
        EXCEPT !["training"] = self["training"]]

\* The held batch with every padding position set to token q.
Repadded(q) ==
    Tab(BatchSize, LAMBDA b :
        Tab(PaddedLen, LAMBDA t :
            IF t <= call.lengths[b] THEN call.inputs[b][t] ELSE q))

(***************************************************************************)
(* C1. Constructing with rnn_type one of the supported names succeeds and  *)
(* leaves an embedding, an input dropout and a recurrent layer; with any   *)
(* other string it raises before any of the three is created.              *)
(***************************************************************************)
C1_ConstructionAllOrNothing ==
    pc # "start" =>
        IF rnn_type_arg \in DOMAIN supported_rnns
        THEN /\ pc = "constructed"
             /\ LayerAttrs \subseteq DOMAIN self
             /\ self["embedding"].cls = "Embedding"
             /\ self["input_dropout"].cls = "Dropout"
             /\ self["rnn"].cls = supported_rnns[rnn_type_arg]
        ELSE /\ ConstructionFailed
             /\ DOMAIN self \cap LayerAttrs = {}

C1_Witness ==
    /\ ConstructionFailed
    /\ rnn_type_arg \notin DOMAIN supported_rnns
    /\ DOMAIN self = {"training"}

(***************************************************************************)
(* C2. Whatever the order of the sequences in the batch, forward on valid  *)
(* lengths succeeds, and element i of what it returns is the encoding of   *)
(* input element i (what forward returns for that sequence alone).         *)
(***************************************************************************)
C2_AnyOrderAccepted ==
    (Called /\ ValidLengths /\ ~self["training"]) =>
        /\ call.outcome = "ok"
        /\ \A i \in 1..BatchSize :
              SameElement(call, i,
                          forward(self, <<call.inputs[i]>>, <<call.lengths[i]>>,
                                  call.seed),
                          1, call.lengths[i])

(***************************************************************************)
(* C3. The second value forward returns is one tensor of shape             *)
(* (num_layers * directions, batch, hidden_size), for every cell variant.  *)
(***************************************************************************)
C3_HiddenIsOneTensor ==
    Returned =>
        /\ call.hidden.type = "Tensor"
        /\ Shape(call.hidden.data) =
             <<self["rnn"].num_layers * Directions, BatchSize,
               self["rnn"].hidden_size>>

(***************************************************************************)
(* C4. The time dimension of the returned features is the largest true     *)
(* length of the call, not the padded length of the input.                 *)
(***************************************************************************)
C4_TimeDimIsMaxLength ==
    Returned =>
        /\ Shape(call.output.data)[1] = BatchSize
        /\ Shape(call.output.data)[2] = MaxLength
        /\ Shape(call.output.data)[2] <= PaddedLen
        /\ (Shape(call.output.data)[2] = PaddedLen
              <=> \E b \in 1..BatchSize : call.lengths[b] = PaddedLen)

C4_Witness ==
    /\ Returned
    /\ BatchSize >= 2
    /\ MaxLength < PaddedLen
    /\ Shape(call.output.data)[2] = MaxLength

(***************************************************************************)
(* C5. Tokens at padding positions do not reach the result: the same       *)
(* batch with other tokens at its padding positions gives the same         *)
(* features at every valid timestep and the same final hidden state.       *)
(***************************************************************************)
C5_PaddingDoesNotLeak ==
    Returned =>
        \A q \in 0..(self["embedding"].num_embeddings - 1) :
            LET other == forward(self, Repadded(q), call.lengths, call.seed)
            IN  \/ Repadded(q) = call.inputs
                \/ /\ other.hidden = call.hidden
                   /\ \A b \in 1..BatchSize :
                         SameElement(call, b, other, b, call.lengths[b])

C5_Witness ==
    /\ Returned
    /\ self["rnn"].bidirectional
    /\ self["rnn"].num_layers > 1
    /\ \E b \in 1..BatchSize : call.lengths[b] < PaddedLen
    /\ \E q \in 0..(self["embedding"].num_embeddings - 1) :
          Repadded(q) # call.inputs

(***************************************************************************)
(* C6. With one layer the dropout probability does not change the result:  *)
(* the call returns what the encoder built with dropout 0 returns.  As     *)
(* first stated, for the same seed in either mode; as amended, in eval     *)
(* mode.                                                                   *)
(***************************************************************************)
SameAsWithoutDropout ==
    LET plain == AsConstructed(("dropout_p" :> 0) @@ args.kw)
        other == forward(plain, call.inputs, call.lengths, call.seed)
    IN  /\ other.outcome = call.outcome
        /\ other.output = call.output
        /\ other.hidden = call.hidden

\* C6 as first stated.
C6_DropoutIrrelevantSingleLayer ==
    (Returned /\ self["rnn"].num_layers = 1) => SameAsWithoutDropout

\* C6 as amended: in eval mode.
C6_DropoutIrrelevantSingleLayerEval ==
    (Returned /\ self["rnn"].num_layers = 1 /\ ~self["training"]) =>
        SameAsWithoutDropout

C6_Witness ==
    /\ Returned
    /\ self["rnn"].num_layers = 1
    /\ ~self["training"]
    /\ self["input_dropout"].p > 0
    /\ self["rnn"].dropout > 0

(***************************************************************************)
(* C7. The returned features have shape (batch, seq_len, hidden_size).     *)
(***************************************************************************)
C7_OutputWidthIsHiddenSize ==
    Returned =>
        /\ Shape(call.output.data)[1] = BatchSize
        /\ Shape(call.output.data)[3] = self["rnn"].hidden_size

(***************************************************************************)
(* C8. Constructed with in_features and hidden_size alone, the encoder has *)
(* the documented defaults: one layer, unidirectional, GRU, dropout 0.     *)
(***************************************************************************)
C8_DocumentedDefaults ==
    (pc = "constructed" /\ DOMAIN args.kw = {}) =>
        /\ self["rnn"].num_layers = 1
        /\ self["rnn"].bidirectional = FALSE
        /\ self["rnn"].cls = "GRU"
        /\ self["input_dropout"].p = 0
        /\ self["rnn"].dropout = 0

(***************************************************************************)
(* C9. A forward call, returning or raising, leaves the module as it was   *)
(* and retains nothing; a call that raises returns nothing; and in eval    *)
(* mode the call returns what the same call returns on the encoder as      *)
(* constructed, whatever calls came before.                                *)
(***************************************************************************)
C9_ForwardIsStateless ==
    [][ (call = NoCall /\ call' # NoCall) =>
          /\ self' = self
          /\ pc' = pc
          /\ args' = args
          /\ DOMAIN self' = {"training", "rnn_cell"} \cup LayerAttrs
          /\ (call'.outcome # "ok" =>
                call'.output = NoValue /\ call'.hidden = NoValue)
          /\ (~self["training"] =>
                call' = CallRecord(AsConstructed(args.kw), call'.inputs,
                                   call'.lengths, call'.seed)) ]_vars

C9_Witness ==
    /\ Called
    /\ ~self["training"]
    /\ call.outcome = "RuntimeError"
    /\ \E b \in 1..BatchSize : call.lengths[b] > PaddedLen

(***************************************************************************)
(* C10. Every rnn_type the support check accepts (its lower-cased form is  *)
(* a supported name) is resolved to a cell class, and construction         *)
(* completes: no accepted string makes the lookup fail.                    *)
(***************************************************************************)
C10_CheckAndLookupAgree ==
    (pc # "start" /\ lower(rnn_type_arg) \in DOMAIN supported_rnns) =>
        pc = "constructed"
====
